---- MODULE Spec2Model ----
(***************************************************************************)
(* Model of the mission debrief parser of src/il2_mission_debrief.py:      *)
(* GameObject (classification), MissionStats (the registry, the hit list,  *)
(* the kill list, the outcome fields) and MissionDebriefParser.parse.      *)
(*                                                                         *)
(* Conventions                                                             *)
(*  - Python None is the empty tuple <<>>, a present value v is <<v>>.     *)
(*    A decoded integer field of a log line is a plain integer and is -1   *)
(*    when the field is absent from the line (_i).                         *)
(*  - A Python str is a tuple of one-character strings.                    *)
(*  - A damage fraction is an integer number of thousandths (DMG:0.005 is  *)
(*    5), so sums and the 80 % ratio are exact.                            *)
(*  - A time string "HH:MM:SS" is the tuple <<h, m, s>>.                   *)
(***************************************************************************)
EXTENDS Integers, Sequences, FiniteSets, TLC

VARIABLES
    pc,                     \* position in parse(): register, events, bailout, duration, done, failed
    spawn_lines,            \* the spawn lines of the log (AType:10 and AType:12)
    lines,                  \* the event lines of the log handled so far (decoded fields)
    player_id, player_pid, player_plid, player_aircraft,
    objects,                \* MissionStats.objects: id -> GameObject
    hits,                   \* MissionStats.hits
    kills,                  \* MissionStats.kills: ids of the GameObjects, in order
    events,                 \* MissionStats.events
    destroyed,              \* parse()'s local dict, in insertion order
    wounded, total_aircraft_damage, total_pilot_damage,
    landed, crashed, pilot_separation_time, final_state,
    takeoff_time, landing_time, flight_duration,
    data,                   \* the dict to_json() writes, None before the export
    first_run               \* the log and the output of an earlier run on the same log

vars == <<pc, spawn_lines, lines, player_id, player_pid, player_plid, player_aircraft,
          objects, hits, kills, events, destroyed, wounded, total_aircraft_damage,
          total_pilot_damage, landed, crashed, pilot_separation_time, final_state,
          takeoff_time, landing_time, flight_duration, data, first_run>>

None == <<>>
Some(v) == <<v>>

\* Python truthiness of an optional integer: None and 0 are false.
Truthy(o) == o # None /\ o[1] # 0

\* x == o for a decoded integer x and an optional integer o.
EqOpt(x, o) == o = Some(x)

-----------------------------------------------------------------------------
(* Strings *)

UpperCs == <<"A","B","C","D","E","F","G","H","I","J","K","L","M",
             "N","O","P","Q","R","S","T","U","V","W","X","Y","Z">>
LowerCs == <<"a","b","c","d","e","f","g","h","i","j","k","l","m",
             "n","o","p","q","r","s","t","u","v","w","x","y","z">>
Digits == <<"0","1","2","3","4","5","6","7","8","9">>

LowerChar(c) ==
    IF \E i \in 1..26 : UpperCs[i] = c
    THEN LowerCs[CHOOSE i \in 1..26 : UpperCs[i] = c]
    ELSE c

\* str.lower()
LowerStr(s) == [i \in 1..Len(s) |-> LowerChar(s[i])]

RECURSIVE StripLeft(_)
StripLeft(s) == IF s # <<>> /\ Head(s) = " " THEN StripLeft(Tail(s)) ELSE s

RECURSIVE StripRight(_)
StripRight(s) ==
    IF s # <<>> /\ s[Len(s)] = " " THEN StripRight(SubSeq(s, 1, Len(s) - 1)) ELSE s

\* str.strip()
Strip(s) == StripRight(StripLeft(s))

\* s.startswith(p)
StartsWith(s, p) == Len(p) <= Len(s) /\ SubSeq(s, 1, Len(p)) = p

\* s.find(p) + 1: the first position where p occurs in s, 0 when it does not.
FindSub(s, p) ==
    LET at == {i \in 1..(Len(s) - Len(p) + 1) : SubSeq(s, i, i + Len(p) - 1) = p}
    IN  IF at = {} THEN 0 ELSE CHOOSE i \in at : \A j \in at : i <= j

\* p in s
Contains(s, p) == FindSub(s, p) # 0

\* s.replace(p, '', 1)
ReplaceFirst(s, p) ==
    LET i == FindSub(s, p)
    IN  IF i = 0 THEN s ELSE SubSeq(s, 1, i - 1) \o SubSeq(s, i + Len(p), Len(s))

\* s.split(c)[0]
SplitHead(s, c) ==
    LET i == FindSub(s, <<c>>)
    IN  IF i = 0 THEN s ELSE SubSeq(s, 1, i - 1)

\* str(n) for an integer n
RECURSIVE IntStr(_)
IntStr(n) ==
    IF n < 0 THEN <<"-">> \o IntStr(0 - n)
    ELSE IF n < 10 THEN <<Digits[n + 1]>>
    ELSE IntStr(n \div 10) \o <<Digits[(n % 10) + 1]>>

StaticMarker == <<"s","t","a","t","i","c","_">>

-----------------------------------------------------------------------------
(* The object-category table (object_categories.yaml as loaded by           *)
(* GameObject._load_config): categories in file order, each with its       *)
(* keyword list, and the exclusion keyword list.                           *)

CategoryConfig ==
    << [cat |-> "Air",    keywords |-> << <<"i","l","2">>, <<"b","f","1","0","9">>,
                                          <<"s","t","a","t","i","c","_","i","l","2">> >>],
       [cat |-> "Ground", keywords |-> << <<"f","l","a","k">>,
                                          <<"f","a","k","e","f","l","a","k">> >>],
       [cat |-> "Naval",  keywords |-> << <<"s","h","i","p">>, <<"f","l","a","k">> >>] >>

ExcludeConfig == << <<"f","a","k","e">> >>

\* classify_type matching a keyword that occurs in the tag
classify_type_contains(type_) ==
    LET s0 == Strip(LowerStr(type_))
        s  == IF StartsWith(s0, StaticMarker) /\ Contains(s0, <<"[">>)
              THEN SplitHead(s0, "[") ELSE s0
        matches == {i \in 1..Len(CategoryConfig) :
                      \E k \in 1..Len(CategoryConfig[i].keywords) :
                          Contains(s, LowerStr(CategoryConfig[i].keywords[k]))}
    IN  IF \E x \in 1..Len(ExcludeConfig) : Contains(s, ExcludeConfig[x])
        THEN "Excluded"
        ELSE IF matches # {}
        THEN CategoryConfig[CHOOSE i \in matches : \A j \in matches : i <= j].cat
        ELSE "Unknown"

\* GameObject.classify_type
classify_type(type_) ==
    LET s0 == Strip(LowerStr(type_))
        s  == IF StartsWith(s0, StaticMarker) /\ Contains(s0, <<"[">>)
              THEN SplitHead(s0, "[") ELSE s0
        matches == {i \in 1..Len(CategoryConfig) :
                      \E k \in 1..Len(CategoryConfig[i].keywords) :
                          s = LowerStr(CategoryConfig[i].keywords[k])}
    IN  IF \E x \in 1..Len(ExcludeConfig) : Contains(s, ExcludeConfig[x])
        THEN "Excluded"
        ELSE IF matches # {}
        THEN CategoryConfig[CHOOSE i \in matches : \A j \in matches : i <= j].cat
        ELSE "Unknown"

\* GameObject classifying a static object on its cleaned type
GameObject_cleaned(gid, type_) ==
    LET static == StartsWith(LowerStr(type_), StaticMarker)
        clean == IF static THEN SplitHead(ReplaceFirst(type_, StaticMarker), "[")
                 ELSE type_
    IN  [id          |-> gid,
         type        |-> clean,
         is_static   |-> static,
         category    |-> classify_type(clean),
         state       |-> "Alive",
         time_of_kill |-> None,
         altitude    |-> None]

\* GameObject.__init__ (name and country are stored and never read by parse)
GameObject(gid, type_) ==
    LET static == StartsWith(LowerStr(type_), StaticMarker)
    IN  [id          |-> gid,
         type        |-> IF static THEN SplitHead(ReplaceFirst(type_, StaticMarker), "[")
                         ELSE type_,
         is_static   |-> static,
         category    |-> classify_type(type_),
         state       |-> "Alive",
         time_of_kill |-> None,
         altitude    |-> None]

-----------------------------------------------------------------------------
(* Time *)

TicksPerSecond == 50

\* MissionDebriefParser.mission_time_to_hhmmss: sec = t / 50.0, then
\* int(sec // 3600), int((sec % 3600) // 60), int(sec % 60)
mission_time_to_hhmmss(t) ==
    << t \div (3600 * TicksPerSecond),
       (t % (3600 * TicksPerSecond)) \div (60 * TicksPerSecond),
       (t % (60 * TicksPerSecond)) \div TicksPerSecond >>

-----------------------------------------------------------------------------
MaxEvents == 3

(* Log lines.  A line is the record of its decoded fields; a field the     *)
(* line does not carry decodes to -1 (_i), 0 (_f) or no POS match.         *)

BlankLine ==
    [atype |-> -1, t |-> -1, aid |-> -1, tid |-> -1, dmg |-> 0, pid |-> -1,
     botid |-> -1, parentid |-> -1, alt |-> None, paratrooper |-> FALSE]

\* A spawn line (AType:10 or AType:12): gid is the decoded AID (AType:10)
\* or ID (AType:12) field, type the text of the TYPE field up to COUNTRY.
SpawnLine(atype, ispl, plid, pid, gid, type_) ==
    [atype |-> atype, ispl |-> ispl, plid |-> plid, pid |-> pid, gid |-> gid,
     type |-> type_]

\* One event of MissionStats.events; a key the event lacks reads as None (dict.get).
Evt(time, type_, target, damage, altitude, time_raw) ==
    [time |-> time, type |-> type_, target |-> target, damage |-> damage,
     altitude |-> altitude, time_raw |-> time_raw]

-----------------------------------------------------------------------------
(* MissionStats *)

\* MissionStats.add_object
add_object(objs, obj) ==
    [i \in (DOMAIN objs) \cup {obj.id} |-> IF i = obj.id THEN obj ELSE objs[i]]

\* the ids of a kill list
KillIds(ks) == {ks[i] : i \in 1..Len(ks)}

\* add_kill appending without the "obj not in self.kills" test
add_kill_twice(objs, ks, tid, ts) ==
    IF tid \in DOMAIN objs /\ objs[tid].category = "Excluded"
    THEN [objects |-> objs, kills |-> ks]
    ELSE IF tid \in DOMAIN objs
    THEN [objects |-> [objs EXCEPT ![tid].state = "Destroyed", ![tid].time_of_kill = ts],
          kills   |-> Append(ks, tid)]
    ELSE [objects |-> objs, kills |-> ks]

\* add_kill without the test for the Excluded category
add_kill_excluded(objs, ks, tid, ts) ==
    IF tid \in DOMAIN objs
    THEN [objects |-> [objs EXCEPT ![tid].state = "Destroyed", ![tid].time_of_kill = ts],
          kills   |-> IF tid \in KillIds(ks) THEN ks ELSE Append(ks, tid)]
    ELSE [objects |-> objs, kills |-> ks]

\* MissionStats.add_kill: the new objects and kills
add_kill(objs, ks, tid, ts) ==
    IF tid \in DOMAIN objs /\ objs[tid].category = "Excluded"
    THEN [objects |-> objs, kills |-> ks]
    ELSE IF tid \in DOMAIN objs
    THEN [objects |-> [objs EXCEPT ![tid].state = "Destroyed", ![tid].time_of_kill = ts],
          kills   |-> IF tid \in KillIds(ks) THEN ks ELSE Append(ks, tid)]
    ELSE [objects |-> objs, kills |-> ks]

\* IsPlayer taking every id a line carries for the player's
IsPlayer_anyone(a) == a # -1

\* a in (self.stats.player_pid, self.stats.player_plid)
IsPlayer(a) == EqOpt(a, player_pid) \/ EqOpt(a, player_plid)

\* [h for h in self.stats.hits if h["target"] == tid]
HitsOn(hs, tid) == SelectSeq(hs, LAMBDA h : h.target = tid)

\* sum(h["damage"] for h in hs)
RECURSIVE SumDamage(_)
SumDamage(hs) == IF hs = <<>> THEN 0 ELSE Head(hs).damage + SumDamage(Tail(hs))

\* sum(h["damage"] for h in hs if h["attacker"] in (player_pid, player_plid))
PlayerDamage(hs) == SumDamage(SelectSeq(hs, LAMBDA h : IsPlayer(h.attacker)))

KillSharePercent == 80

\* total > 0 and player / total >= 0.8
ShareQualifies(player, total) ==
    total > 0 /\ player * 100 >= KillSharePercent * total

\* obj.altitude = alt when the object is registered and alt is known
SetAltitude(objs, tid, alt) ==
    IF tid \in DOMAIN objs /\ alt # None
    THEN [objs EXCEPT ![tid].altitude = alt]
    ELSE objs

\* MissionDebriefParser._resolve_indirect_kill
resolve_indirect_kill(objs, ks, hs, tid, ts, alt) ==
    LET on == HitsOn(hs, tid)
    IN  IF ShareQualifies(PlayerDamage(on), SumDamage(on))
        THEN add_kill(SetAltitude(objs, tid, alt), ks, tid, ts)
        ELSE [objects |-> objs, kills |-> ks]

\* destroyed[tgt] = (ts, altitude): a Python dict keeps the position of a key
\* that is assigned again.
DictPut(d, tid, ts, alt) ==
    IF \E i \in 1..Len(d) : d[i].tid = tid
    THEN [i \in 1..Len(d) |->
            IF d[i].tid = tid THEN [tid |-> tid, time |-> ts, altitude |-> alt] ELSE d[i]]
    ELSE Append(d, [tid |-> tid, time |-> ts, altitude |-> alt])

-----------------------------------------------------------------------------
(* parse(): the registration loop *)

Init ==
    /\ pc = "register"
    /\ spawn_lines = <<>>
    /\ lines = <<>>
    /\ player_id = None /\ player_pid = None /\ player_plid = None
    /\ player_aircraft = None
    /\ objects = <<>>
    /\ hits = <<>>
    /\ kills = <<>>
    /\ events = <<>>
    /\ destroyed = <<>>
    /\ wounded = FALSE
    /\ total_aircraft_damage = 0
    /\ total_pilot_damage = 0
    /\ landed = FALSE /\ crashed = FALSE
    /\ pilot_separation_time = None
    /\ final_state = "Alive"
    /\ takeoff_time = None /\ landing_time = None /\ flight_duration = None
    /\ data = None
    /\ first_run = None

\* _s: the text the pattern matches, stripped
_s(text) == Strip(text)

\* RegisterLine taking every AType:10 line as the player's, flagged or not
RegisterLine_noflag(st, l) ==
    LET pl == IF l.atype = 10
              THEN [st EXCEPT !.player_plid = Some(l.plid),
                              !.player_pid = Some(l.pid),
                              !.player_id = Some(IF l.pid # 0 THEN l.pid ELSE l.plid),
                              !.player_aircraft = Some(_s(l.type))]
              ELSE st
    IN  IF l.atype \in {10, 12}
        THEN [pl EXCEPT !.objects = add_object(pl.objects, GameObject(l.gid, _s(l.type)))]
        ELSE st

\* One iteration of "for ln in lines" of the registration loop on the
\* registration state st.
RegisterLine(st, l) ==
    LET pl == IF l.atype = 10 /\ l.ispl
              THEN [st EXCEPT !.player_plid = Some(l.plid),
                              !.player_pid = Some(l.pid),
                              !.player_id = Some(IF l.pid # 0 THEN l.pid ELSE l.plid),
                              !.player_aircraft = Some(_s(l.type))]
              ELSE st
    IN  IF l.atype \in {10, 12}
        THEN [pl EXCEPT !.objects = add_object(pl.objects, GameObject(l.gid, _s(l.type)))]
        ELSE st

RECURSIVE RegisterLines(_, _)
RegisterLines(st, ls) ==
    IF ls = <<>> THEN st ELSE RegisterLines(RegisterLine(st, Head(ls)), Tail(ls))

\* The whole registration loop over the spawn lines of the log.
RegisterPass(spawns) ==
    /\ pc = "register"
    /\ LET st == RegisterLines([player_id |-> player_id, player_pid |-> player_pid,
                                player_plid |-> player_plid,
                                player_aircraft |-> player_aircraft,
                                objects |-> objects], spawns)
       IN  /\ player_id' = st.player_id
           /\ player_pid' = st.player_pid
           /\ player_plid' = st.player_plid
           /\ player_aircraft' = st.player_aircraft
           /\ objects' = st.objects
    /\ spawn_lines' = spawns
    /\ pc' = "events"
    /\ UNCHANGED <<lines, data, first_run, hits, kills, events, destroyed, wounded,
                   total_aircraft_damage, total_pilot_damage, landed, crashed,
                   pilot_separation_time, final_state, takeoff_time, landing_time,
                   flight_duration>>

-----------------------------------------------------------------------------
(* parse(): the event loop, one action per kind of line *)

\* the tick of the line handled last: the lines of a log are in tick order
Clock == IF lines = <<>> THEN 0 ELSE lines[Len(lines)].t

\* The loop takes the next line l of the log.
TakeLine(l) ==
    /\ pc = "events"
    /\ Len(lines) < MaxEvents
    /\ l.t >= Clock
    /\ lines' = Append(lines, l)

\* the attacker's name of a Damage Taken event
AttackerName(a) ==
    IF a \in DOMAIN objects THEN objects[a].type
    ELSE <<"U","n","k","n","o","w","n"," ","(","I","D",":">> \o IntStr(a) \o <<")">>

WoundedThreshold == 10

\* the wounded test with >= in place of >
PilotDamageWounds_atleast(total) == total >= WoundedThreshold

\* self.stats.total_pilot_damage > 0.01
PilotDamageWounds(total) == total > WoundedThreshold

\* AType:2, a damage line
DamageEvent(t, a, tgt, dmg, alt) ==
    LET ts == mission_time_to_hhmmss(t)
        toAircraft == EqOpt(tgt, player_plid) /\ dmg > 0
        toPilot == (EqOpt(tgt, player_pid) \/ EqOpt(tgt, player_id)) /\ dmg > 0
        ev(part) == Evt(ts, "Damage Taken", Some(AttackerName(a)),
                        Some([tenths |-> dmg, part |-> part]), alt, Some(t))
        ev1 == IF toAircraft THEN Append(events, ev("aircraft")) ELSE events
        ev2 == IF toPilot THEN Append(ev1, ev("pilot")) ELSE ev1
        pilotTotal == IF toPilot THEN total_pilot_damage + dmg ELSE total_pilot_damage
    IN  /\ TakeLine([BlankLine EXCEPT !.atype = 2, !.t = t, !.aid = a, !.tid = tgt,
                                      !.dmg = dmg, !.alt = alt])
        /\ hits' = Append(hits, [attacker |-> a, target |-> tgt, damage |-> dmg, time |-> ts])
        /\ total_aircraft_damage' =
              IF toAircraft THEN total_aircraft_damage + dmg ELSE total_aircraft_damage
        /\ total_pilot_damage' = pilotTotal
        /\ events' = ev2
        /\ wounded' = IF PilotDamageWounds(pilotTotal) THEN TRUE ELSE wounded
        /\ UNCHANGED <<pc, spawn_lines, data, first_run, player_id, player_pid, player_plid, player_aircraft, objects,
                       kills, destroyed, landed, crashed, pilot_separation_time,
                       final_state, takeoff_time, landing_time, flight_duration>>

\* The kill bookkeeping of an AType:3 line: the new objects and kills.
DestroyCredit(a, tgt, ts, alt) ==
    IF tgt \in DOMAIN objects /\ objects[tgt].category = "Excluded"
    THEN [objects |-> objects, kills |-> kills]
    ELSE IF IsPlayer(a)
    THEN add_kill(SetAltitude(objects, tgt, alt), kills, tgt, ts)
    ELSE IF a = -1
    THEN resolve_indirect_kill(objects, kills, hits, tgt, ts, alt)
    ELSE [objects |-> objects, kills |-> kills]

\* AType:3, a destroy line
DestroyEvent(t, a, tgt, alt) ==
    LET ts == mission_time_to_hhmmss(t)
        r == DestroyCredit(a, tgt, ts, alt)
    IN  /\ TakeLine([BlankLine EXCEPT !.atype = 3, !.t = t, !.aid = a, !.tid = tgt,
                                      !.alt = alt])
        /\ destroyed' = DictPut(destroyed, tgt, ts, alt)
        /\ objects' = r.objects
        /\ kills' = r.kills
        /\ UNCHANGED <<pc, spawn_lines, data, first_run, player_id, player_pid, player_plid, player_aircraft, hits,
                       events, wounded, total_aircraft_damage, total_pilot_damage,
                       landed, crashed, pilot_separation_time, final_state,
                       takeoff_time, landing_time, flight_duration>>

\* AType:5, a takeoff line
TakeoffEvent(t, pid, alt) ==
    /\ TakeLine([BlankLine EXCEPT !.atype = 5, !.t = t, !.pid = pid, !.alt = alt])
    /\ IF IsPlayer(pid) /\ ~Truthy(takeoff_time)
       THEN /\ takeoff_time' = Some(t)
            /\ events' = Append(events, Evt(mission_time_to_hhmmss(t), "Takeoff",
                                            None, None, alt, Some(t)))
       ELSE UNCHANGED <<takeoff_time, events>>
    /\ UNCHANGED <<pc, spawn_lines, data, first_run, player_id, player_pid, player_plid, player_aircraft, objects,
                   hits, kills, destroyed, wounded, total_aircraft_damage,
                   total_pilot_damage, landed, crashed, pilot_separation_time,
                   final_state, landing_time, flight_duration>>

\* AType:18, a pilot separation line
SeparationEvent(t, botid, parentid) ==
    /\ TakeLine([BlankLine EXCEPT !.atype = 18, !.t = t, !.botid = botid,
                                  !.parentid = parentid])
    /\ pilot_separation_time' =
          IF /\ Truthy(player_pid) /\ Truthy(player_plid)
             /\ EqOpt(botid, player_pid) /\ EqOpt(parentid, player_plid)
          THEN Some(t) ELSE pilot_separation_time
    /\ UNCHANGED <<pc, spawn_lines, data, first_run, player_id, player_pid, player_plid, player_aircraft, objects,
                   hits, kills, events, destroyed, wounded, total_aircraft_damage,
                   total_pilot_damage, landed, crashed, final_state, takeoff_time,
                   landing_time, flight_duration>>

SeparationThreshold == 2000

\* if self.stats.pilot_separation_time
SeparationKnown(sep) == Truthy(sep)

WoundedLabel(base, w) == IF w THEN base \o " (Wounded)" ELSE base

\* The outcome the first landing or crash line decides (lines 303-348): the
\* new crashed and landed flags, the final state and the event type.
Outcome(sep, t, atype, w) ==
    IF SeparationKnown(sep)
    THEN IF t - sep[1] > SeparationThreshold
         THEN [crashed |-> FALSE, landed |-> FALSE,
               final_state |-> WoundedLabel("Bailout", w), event_type |-> "Bailout"]
         ELSE IF atype = 7
         THEN [crashed |-> TRUE, landed |-> landed,
               final_state |-> WoundedLabel("Crashed", w), event_type |-> "Crash"]
         ELSE [crashed |-> crashed, landed |-> TRUE,
               final_state |-> WoundedLabel("Landed", w), event_type |-> "Landing"]
    ELSE IF atype = 7
    THEN [crashed |-> TRUE, landed |-> landed,
          final_state |-> WoundedLabel("Crashed", w), event_type |-> "Crash"]
    ELSE [crashed |-> crashed, landed |-> TRUE,
          final_state |-> WoundedLabel("Landed", w), event_type |-> "Landing"]

\* not self.stats.landing_time
NoLandingYet(lt) == ~Truthy(lt)

\* AType:6 or AType:7, a landing or crash line
LandingOrCrashEvent(t, atype, pid, alt) ==
    /\ atype \in {6, 7}
    /\ TakeLine([BlankLine EXCEPT !.atype = atype, !.t = t, !.pid = pid, !.alt = alt])
    /\ IF IsPlayer(pid) /\ NoLandingYet(landing_time)
       THEN LET o == Outcome(pilot_separation_time, t, atype, wounded)
            IN  /\ landing_time' = Some(t)
                /\ crashed' = o.crashed
                /\ landed' = o.landed
                /\ final_state' = o.final_state
                /\ events' = Append(events, Evt(mission_time_to_hhmmss(t), o.event_type,
                                                None, None, alt, Some(t)))
       ELSE UNCHANGED <<landing_time, crashed, landed, final_state, events>>
    /\ UNCHANGED <<pc, spawn_lines, data, first_run, player_id, player_pid, player_plid, player_aircraft, objects,
                   hits, kills, destroyed, wounded, total_aircraft_damage,
                   total_pilot_damage, pilot_separation_time, takeoff_time,
                   flight_duration>>

\* AType:13: no branch of the event loop takes the line; the bail-out
\* detection looks for "Paratrooper" in it after the loop.  pid is the id the
\* line carries, -1 when it carries none: nothing reads it.
ParachuteSpawnEvent(t, pid, paratrooper) ==
    /\ TakeLine([BlankLine EXCEPT !.atype = 13, !.t = t, !.pid = pid,
                                  !.paratrooper = paratrooper])
    /\ UNCHANGED <<pc, spawn_lines, data, first_run, player_id, player_pid, player_plid, player_aircraft, objects,
                   hits, kills, events, destroyed, wounded, total_aircraft_damage,
                   total_pilot_damage, landed, crashed, pilot_separation_time,
                   final_state, takeoff_time, landing_time, flight_duration>>

-----------------------------------------------------------------------------
(* parse(): after the event loop *)

\* RetroStep without the test that the target is not yet in the kill list
RetroStep_again(r, d) ==
    LET on == HitsOn(hits, d.tid)
    IN  IF on = <<>> THEN r
        ELSE IF ShareQualifies(PlayerDamage(on), SumDamage(on))
        THEN add_kill(SetAltitude(r.objects, d.tid, d.altitude), r.kills, d.tid,
                      on[Len(on)].time)
        ELSE r

\* One iteration of "for tid, (kill_time, altitude) in destroyed.items()"
\* on r = [objects, kills].
RetroStep(r, d) ==
    LET on == HitsOn(hits, d.tid)
    IN  IF on = <<>> THEN r
        ELSE IF /\ ShareQualifies(PlayerDamage(on), SumDamage(on))
                /\ d.tid \notin KillIds(r.kills)
        THEN add_kill(SetAltitude(r.objects, d.tid, d.altitude), r.kills, d.tid,
                      on[Len(on)].time)
        ELSE r

RECURSIVE RetroLoop(_, _)
RetroLoop(r, ds) ==
    IF ds = <<>> THEN r ELSE RetroLoop(RetroStep(r, Head(ds)), Tail(ds))

\* "retroactive proportional kills": the whole loop, at the end of the log
RetroPass ==
    /\ pc = "events"
    /\ LET r == RetroLoop([objects |-> objects, kills |-> kills], destroyed)
       IN  /\ objects' = r.objects
           /\ kills' = r.kills
    /\ pc' = "bailout"
    /\ UNCHANGED <<lines, spawn_lines, data, first_run, player_id, player_pid, player_plid,
                   player_aircraft, hits, events, destroyed, wounded,
                   total_aircraft_damage, total_pilot_damage, landed, crashed,
                   pilot_separation_time, final_state, takeoff_time, landing_time,
                   flight_duration>>

\* any("AType:13" in l and "Paratrooper" in l for l in lines)
parachute_found == \E i \in 1..Len(lines) : lines[i].atype = 13 /\ lines[i].paratrooper

\* the bail-out detection without the test of the crashed and landed flags
BailoutFallback_always(found, cr, ld, fs, w) ==
    IF found THEN WoundedLabel("Bailed Out", w) ELSE fs

\* the final state after the bail-out detection
BailoutFallback(found, cr, ld, fs, w) ==
    IF found /\ ~cr /\ ~ld THEN WoundedLabel("Bailed Out", w) ELSE fs

\* "detect bail-out"
DetectBailout ==
    /\ pc = "bailout"
    /\ final_state' = BailoutFallback(parachute_found, crashed, landed, final_state, wounded)
    /\ pc' = "duration"
    /\ UNCHANGED <<lines, spawn_lines, data, first_run, player_id, player_pid, player_plid,
                   player_aircraft, objects, hits, kills, events, destroyed, wounded,
                   total_aircraft_damage, total_pilot_damage, landed, crashed,
                   pilot_separation_time, takeoff_time, landing_time,
                   flight_duration>>

\* max(e.get('time_raw', 0) for e in events) of a non-empty event list
MaxTimeRaw(es) ==
    LET raws == {IF es[i].time_raw = None THEN 0 ELSE es[i].time_raw[1] : i \in 1..Len(es)}
    IN  CHOOSE m \in raws : \A x \in raws : x <= m

\* f"{h:02}:{m:02}:{s:02}" of duration / 50.0 seconds
DurationString(duration) ==
    << duration \div (3600 * TicksPerSecond),
       (duration % (3600 * TicksPerSecond)) \div (60 * TicksPerSecond),
       (duration % (60 * TicksPerSecond)) \div TicksPerSecond >>

\* "compute flight duration".  self._format_time is defined nowhere: reaching
\* the call raises AttributeError and parse() does not return.
ComputeDuration ==
    /\ pc = "duration"
    /\ LET useLast == Truthy(takeoff_time) /\ ~Truthy(landing_time) /\ events # <<>>
           end_time == IF useLast THEN Some(MaxTimeRaw(events)) ELSE landing_time
           raises == useLast /\ end_time[1] > takeoff_time[1]
       IN  IF raises
           THEN /\ pc' = "failed"
                /\ UNCHANGED flight_duration
           ELSE /\ pc' = "done"
                /\ flight_duration' =
                      IF Truthy(takeoff_time) /\ Truthy(end_time)
                      THEN Some(DurationString(end_time[1] - takeoff_time[1]))
                      ELSE flight_duration
    /\ UNCHANGED <<lines, spawn_lines, data, first_run, player_id, player_pid, player_plid,
                   player_aircraft, objects, hits, kills, events, destroyed, wounded,
                   total_aircraft_damage, total_pilot_damage, landed, crashed,
                   pilot_separation_time, final_state, takeoff_time, landing_time>>

AfterLoop == RetroPass \/ DetectBailout \/ ComputeDuration

-----------------------------------------------------------------------------
(* The logs the specifications draw their lines from *)

Il2 == <<"i","l","2">>
Bf109 == <<"b","f","1","0","9">>
BotPilot == <<"B","o","t","P","i","l","o","t","_","i","l","2">>
FakeBlock == <<"f","a","k","e","_","b","l","o","c","k">>

\* the ids of the log: the controlled pilot and aircraft, another aircraft,
\* a target, an excluded target, an id no spawn line registers
Ids == [pilot |-> 1, aircraft |-> 2, other |-> 3, target |-> 4, excluded |-> 5,
        unregistered |-> 6]
PilotId == Ids.pilot
AircraftId == Ids.aircraft
OtherId == Ids.other
TargetId == Ids.target
ExcludedId == Ids.excluded
UnregisteredId == Ids.unregistered

\* the spawn lines: the player's AType:10 line (it carries no AID field) and
\* the AType:12 lines of the objects
SpawnLog ==
    << SpawnLine(10, TRUE, AircraftId, PilotId, -1, Il2),
       SpawnLine(12, FALSE, -1, -1, AircraftId, Il2),
       SpawnLine(12, FALSE, -1, -1, PilotId, BotPilot),
       SpawnLine(12, FALSE, -1, -1, OtherId, Bf109),
       SpawnLine(12, FALSE, -1, -1, TargetId, Bf109),
       SpawnLine(12, FALSE, -1, -1, ExcludedId, FakeBlock) >>

SpawnLogs == {SpawnLog}

Register == \E spawns \in SpawnLogs : RegisterPass(spawns)

\* ticks of the lines: the first tick, the next second, and two around the
\* separation threshold after tick 50
KillTicks == {0, TicksPerSecond}
OutcomeTicks == {0, TicksPerSecond, TicksPerSecond + SeparationThreshold,
                 TicksPerSecond + SeparationThreshold + 1}

\* Kill attribution: hits on the targets and destroy lines
KillLines ==
    \/ \E t \in KillTicks, a \in {AircraftId, OtherId}, dmg \in {200, 800} :
          DamageEvent(t, a, TargetId, dmg, None)
    \/ \E t \in KillTicks : DamageEvent(t, PilotId, ExcludedId, 800, None)
    \/ \E t \in KillTicks, a \in {-1, PilotId, AircraftId, OtherId},
          tgt \in {TargetId, ExcludedId} :
          DestroyEvent(t, a, tgt, None)
    \/ \E t \in KillTicks : DestroyEvent(t, -1, UnregisteredId, Some(100))

NextKill == Register \/ KillLines \/ AfterLoop

SpecKill == Init /\ [][NextKill]_vars

\* The flight outcome: takeoff, separation, landing, crash, parachute and
\* hits on the controlled pilot
OutcomeLines ==
    \/ \E t \in OutcomeTicks : TakeoffEvent(t, AircraftId, Some(100))
    \/ \E t \in OutcomeTicks, b \in {PilotId, OtherId} :
          SeparationEvent(t, b, AircraftId)
    \/ \E t \in OutcomeTicks, atype \in {6, 7} :
          LandingOrCrashEvent(t, atype, AircraftId, Some(100))
    \/ \E t \in OutcomeTicks : ParachuteSpawnEvent(t, -1, TRUE)
    \/ \E t \in OutcomeTicks, dmg \in {0, 5, 6} :
          DamageEvent(t, OtherId, PilotId, dmg, None)
    \/ \E t \in OutcomeTicks : DamageEvent(t, OtherId, AircraftId, 800, None)

NextOutcome == Register \/ OutcomeLines \/ AfterLoop

SpecOutcome == Init /\ [][NextOutcome]_vars

Next == Register \/ KillLines \/ OutcomeLines \/ AfterLoop

Spec == Init /\ [][Next]_vars

-----------------------------------------------------------------------------
(* The summary counts of to_json *)

BotPilotTag == <<"b","o","t","p","i","l","o","t">>
BotGunnerTag == <<"b","o","t","g","u","n","n","e","r">>

\* valid(k): not a BotPilot or BotGunner
valid(k) ==
    /\ ~Contains(LowerStr(objects[k].type), BotPilotTag)
    /\ ~Contains(LowerStr(objects[k].type), BotGunnerTag)

\* the number of valid kills of ks whose category is in cats
KillCount(ks, cats) ==
    Len(SelectSeq(ks, LAMBDA k : valid(k) /\ objects[k].category \in cats))

air_kills == KillCount(kills, {"Air"})
ground_kills == KillCount(kills, {"Ground", "Building"})
naval_kills == KillCount(kills, {"Naval"})
air_kills_flying ==
    Len(SelectSeq(kills, LAMBDA k : valid(k) /\ objects[k].category = "Air"
                                               /\ ~objects[k].is_static))
air_kills_parked ==
    Len(SelectSeq(kills, LAMBDA k : valid(k) /\ objects[k].category = "Air"
                                               /\ objects[k].is_static))

\* the damage of the hits on the aircraft id, and of the other hits on the
\* pilot ids (the if / elif of lines 553-556)
aircraft_damage ==
    SumDamage(SelectSeq(hits, LAMBDA h : EqOpt(h.target, player_plid)))
pilot_damage ==
    SumDamage(SelectSeq(hits, LAMBDA h : /\ ~EqOpt(h.target, player_plid)
                                         /\ \/ EqOpt(h.target, player_pid)
                                            \/ EqOpt(h.target, player_id)))

\* the string of a summary without a flight duration
NotAvailable == <<"N/A">>

\* self.stats.flight_duration or "N/A"
summary_flight_duration ==
    IF flight_duration = None THEN NotAvailable ELSE flight_duration[1]

-----------------------------------------------------------------------------
(* to_json(): the timeline.  An event of the timeline has the keys of an    *)
(* event of MissionStats.events and the keys to_json and                    *)
(* _detect_landing_damage add; a key the event lacks is None (FALSE for    *)
(* hard_landing).  time_raw is None, Some(tick) or the minute key <<h, m>>  *)
(* of an aggregated damage entry; damage is None or, for an aggregated     *)
(* entry, the aircraft and pilot percentages in tenths.                    *)

TimelineEvt(e) ==
    [time |-> e.time, type |-> e.type, target |-> e.target, damage |-> e.damage,
     altitude |-> e.altitude, time_raw |-> e.time_raw, category |-> None,
     original_target |-> None, hard_landing |-> FALSE]

\* the Kill event of the kill with id k (lines 592-599)
KillEvt(k) ==
    [time |-> objects[k].time_of_kill, type |-> "Kill", target |-> Some(objects[k].type),
     damage |-> None, altitude |-> objects[k].altitude, time_raw |-> None,
     category |-> Some(objects[k].category), original_target |-> None,
     hard_landing |-> FALSE]

\* the Kill events of the valid kills that have a kill time (lines 590-600)
KillEvents ==
    LET ks == SelectSeq(kills, LAMBDA k : valid(k) /\ objects[k].time_of_kill # None)
    IN  [i \in 1..Len(ks) |-> KillEvt(ks[i])]

\* MinuteKey grouping by the whole time string, seconds included
MinuteKey_second(ts) == ts

\* ':'.join(full_time.split(':')[:2])
MinuteKey(ts) == <<ts[1], ts[2]>>

\* One iteration of the aggregation loop (lines 606-645) on the dict acc
\* (in insertion order) for a Damage Taken event e.
AggregateStep(acc, e) ==
    LET key == MinuteKey(e.time)
        acc1 == IF \E i \in 1..Len(acc) : acc[i].key = key THEN acc
                ELSE Append(acc, [key |-> key, time |-> e.time, time_raw |-> e.time_raw,
                                  aircraft_damage |-> 0, pilot_damage |-> 0,
                                  attacker |-> e.target, altitude |-> e.altitude])
        d == e.damage[1]
    IN  [i \in 1..Len(acc1) |->
            IF acc1[i].key # key THEN acc1[i]
            ELSE IF d.part = "aircraft"
            THEN [acc1[i] EXCEPT !.aircraft_damage = @ + d.tenths]
            ELSE [acc1[i] EXCEPT !.pilot_damage = @ + d.tenths]]

RECURSIVE AggregateDamage(_, _)
AggregateDamage(acc, es) ==
    IF es = <<>> THEN acc
    ELSE IF Head(es).type = "Damage Taken"
    THEN AggregateDamage(AggregateStep(acc, Head(es)), Tail(es))
    ELSE AggregateDamage(acc, Tail(es))

\* the Damage Taken event of one minute (lines 649-678)
AggregatedEvt(d) ==
    [time |-> d.time, type |-> "Damage Taken", target |-> d.attacker,
     damage |-> Some([aircraft |-> d.aircraft_damage, pilot |-> d.pilot_damage]),
     altitude |-> d.altitude, time_raw |-> d.key, category |-> None,
     original_target |-> None, hard_landing |-> FALSE]

\* "convert aggregated damage back to events": a minute without damage
\* yields no event
AggregatedEvents(acc) ==
    LET some == SelectSeq(acc, LAMBDA d : d.aircraft_damage > 0 \/ d.pilot_damage > 0)
    IN  [i \in 1..Len(some) |-> AggregatedEvt(some[i])]

\* parse_time of _time_diff_seconds and of _time_key: the seconds of
\* "H:M:S" or "H:M"
parse_time(t) ==
    IF Len(t) = 3 THEN t[1] * 3600 + t[2] * 60 + t[3]
    ELSE IF Len(t) = 2 THEN t[1] * 3600 + t[2] * 60
    ELSE 0

\* MissionDebriefParser._time_diff_seconds
time_diff_seconds(time1, time2) == parse_time(time2) - parse_time(time1)

\* the element of es at the last of the positions at, None when there is none
LastAt(es, at) ==
    IF at = {} THEN None ELSE Some(es[CHOOSE i \in at : \A j \in at : j <= i])

LandingDamageWindow == 60
KillQuietSeconds == 60
AirfieldBand == 150
NoKillSeconds == 999999

\* criterion 2 without the lower bound
BeforeLanding_nolower(time_diff) == time_diff < LandingDamageWindow

\* criterion 2: 0 < time_diff < 60
BeforeLanding(time_diff) == 0 < time_diff /\ time_diff < LandingDamageWindow

\* airfield_alt2 taking the takeoff altitude alone when both are known
airfield_alt2_takeoff(takeoff_alt, landing_alt) ==
    IF takeoff_alt # None THEN Some(2 * takeoff_alt[1])
    ELSE IF landing_alt # None THEN Some(2 * landing_alt[1])
    ELSE None

\* the airfield elevation, doubled (lines 446-452): the sum of the takeoff
\* and landing altitudes stands for their average
airfield_alt2(takeoff_alt, landing_alt) ==
    IF takeoff_alt # None /\ landing_alt # None THEN Some(takeoff_alt[1] + landing_alt[1])
    ELSE IF takeoff_alt # None THEN Some(2 * takeoff_alt[1])
    ELSE IF landing_alt # None THEN Some(2 * landing_alt[1])
    ELSE None

\* is_landing_dmg of the Damage Taken event e (lines 470-496)
is_landing_dmg(e, aircraft, landing_time_, last_kill_time, airfield2) ==
    /\ e.target = aircraft
    /\ BeforeLanding(time_diff_seconds(e.time, landing_time_))
    /\ LET time_since_kill == IF last_kill_time = None THEN NoKillSeconds
                              ELSE time_diff_seconds(last_kill_time[1], e.time)
       IN  time_since_kill > KillQuietSeconds
    /\ (airfield2 # None /\ e.altitude # None) =>
           2 * e.altitude[1] - airfield2[1] < 2 * AirfieldBand

\* The loop "check each damage event" (lines 468-514) from position i on:
\* the events so far in r.events, has_hard_landing in r.hard; is_dmg[i] is
\* is_landing_dmg of the Damage Taken event es[i].
RECURSIVE MarkEvents(_, _, _, _)
MarkEvents(r, es, is_dmg, i) ==
    IF i > Len(es) THEN r
    ELSE LET e == es[i]
         IN  IF e.type = "Damage Taken"
             THEN IF is_dmg[i]
                  THEN MarkEvents([events |-> Append(r.events,
                                       [e EXCEPT !.type = "Landing Damage",
                                                 !.original_target = e.target]),
                                   hard |-> TRUE], es, is_dmg, i + 1)
                  ELSE MarkEvents([r EXCEPT !.events = Append(@, e)], es, is_dmg, i + 1)
             ELSE IF e.type \in {"Landing", "Crash"} /\ r.hard
                  THEN MarkEvents([r EXCEPT !.events =
                                       Append(@, [e EXCEPT !.hard_landing = TRUE])],
                                  es, is_dmg, i + 1)
                  ELSE MarkEvents([r EXCEPT !.events = Append(@, e)], es, is_dmg, i + 1)

\* the label of a landing with landing damage
HardLandingLabel(hard, fs) ==
    IF hard /\ fs = "Landed" THEN "Landed (Hard Landing)" ELSE fs

\* MissionDebriefParser._detect_landing_damage: the new event list and the
\* new data['summary']['final_state']
detect_landing_damage(es, aircraft, fs) ==
    LET n == 1..Len(es)
        takeoff  == LastAt(es, {i \in n : es[i].type = "Takeoff" /\ es[i].altitude # None})
        landing  == LastAt(es, {i \in n : es[i].type \in {"Landing", "Crash"}})
        landingA == LastAt(es, {i \in n : es[i].type \in {"Landing", "Crash"}
                                          /\ es[i].altitude # None})
        kill     == LastAt(es, {i \in n : es[i].type = "Kill"})
        airfield2 == airfield_alt2(IF takeoff = None THEN None ELSE takeoff[1].altitude,
                                   IF landingA = None THEN None ELSE landingA[1].altitude)
        last_kill_time == IF kill = None THEN None ELSE Some(kill[1].time)
    IN  IF landing = None
        THEN [events |-> es, final_state |-> fs]
        ELSE LET is_dmg == [i \in 1..Len(es) |->
                               /\ es[i].type = "Damage Taken"
                               /\ is_landing_dmg(es[i], aircraft, landing[1].time,
                                                 last_kill_time, airfield2)]
                 r == MarkEvents([events |-> <<>>, hard |-> FALSE], es, is_dmg, 1)
             IN  [events |-> r.events, final_state |-> HardLandingLabel(r.hard, fs)]

NoTimeKey == 999999

\* _time_key of to_json
time_key(e) ==
    IF e.time = None \/ Len(e.time) \notin {2, 3} THEN NoTimeKey ELSE parse_time(e.time)

\* InsertByKey putting e in front of the elements of the same key
InsertByKey_first(s, e) ==
    LET before == {i \in 1..Len(s) : time_key(s[i]) < time_key(e)}
        n == IF before = {} THEN 0 ELSE CHOOSE i \in before : \A j \in before : j <= i
    IN  SubSeq(s, 1, n) \o <<e>> \o SubSeq(s, n + 1, Len(s))

\* e put into the sorted list s behind every element whose key is not greater
InsertByKey(s, e) ==
    LET before == {i \in 1..Len(s) : time_key(s[i]) <= time_key(e)}
        n == IF before = {} THEN 0 ELSE CHOOSE i \in before : \A j \in before : j <= i
    IN  SubSeq(s, 1, n) \o <<e>> \o SubSeq(s, n + 1, Len(s))

\* list.sort(key=_time_key): a stable sort
RECURSIVE SortFrom(_, _)
SortFrom(s, es) == IF es = <<>> THEN s ELSE SortFrom(InsertByKey(s, Head(es)), Tail(es))

sort_by_time(es) == SortFrom(<<>>, es)

\* the list _detect_landing_damage is called with, for the event list evs of
\* parse(): evs and the Kill events without the Damage Taken events, then
\* the aggregated damage events
Assemble(evs) ==
    LET all == [i \in 1..Len(evs) |-> TimelineEvt(evs[i])] \o KillEvents
    IN  SelectSeq(all, LAMBDA e : e.type # "Damage Taken")
          \o AggregatedEvents(AggregateDamage(<<>>, all))

\* the events of a timeline built from the event list evs of parse()
timeline_of(evs) ==
    sort_by_time(detect_landing_damage(Assemble(evs), player_aircraft, final_state).events)

\* the dict to_json dumps
to_json_data ==
    LET r == detect_landing_damage(Assemble(events), player_aircraft, final_state)
    IN  [player  |-> [id |-> player_id, aircraft |-> player_aircraft],
         summary |-> [air_kills |-> air_kills,
                      air_kills_flying |-> air_kills_flying,
                      air_kills_parked |-> air_kills_parked,
                      ground_kills |-> ground_kills,
                      naval_kills |-> naval_kills,
                      flight_duration |-> summary_flight_duration,
                      wounded |-> wounded,
                      aircraft_damage |-> aircraft_damage,
                      pilot_damage |-> pilot_damage,
                      landed |-> landed,
                      crashed |-> crashed,
                      final_state |-> r.final_state],
         events  |-> timeline_of(events)]

\* MissionDebriefParser.to_json, called after parse() has returned
to_json ==
    /\ pc = "done"
    /\ data' = Some(to_json_data)
    /\ pc' = "exported"
    /\ UNCHANGED <<lines, spawn_lines, first_run, player_id, player_pid, player_plid,
                   player_aircraft, objects, hits, kills, events, destroyed, wounded,
                   total_aircraft_damage, total_pilot_damage, landed, crashed,
                   pilot_separation_time, final_state, takeoff_time, landing_time,
                   flight_duration>>


-----------------------------------------------------------------------------
(* A second run on the same log: _txt_to_json builds a new parser, with a  *)
(* new MissionStats, for the file each time it is called.                  *)

Restart ==
    /\ pc = "exported"
    /\ first_run = None
    /\ first_run' = Some([spawn_lines |-> spawn_lines, lines |-> lines, data |-> data[1]])
    /\ pc' = "register"
    /\ spawn_lines' = <<>>
    /\ lines' = <<>>
    /\ player_id' = None /\ player_pid' = None /\ player_plid' = None
    /\ player_aircraft' = None
    /\ objects' = <<>>
    /\ hits' = <<>>
    /\ kills' = <<>>
    /\ events' = <<>>
    /\ destroyed' = <<>>
    /\ wounded' = FALSE
    /\ total_aircraft_damage' = 0
    /\ total_pilot_damage' = 0
    /\ landed' = FALSE /\ crashed' = FALSE
    /\ pilot_separation_time' = None
    /\ final_state' = "Alive"
    /\ takeoff_time' = None /\ landing_time' = None /\ flight_duration' = None
    /\ data' = None

\* The second run reads the log of the first: the same spawn lines, the same
\* event lines in the same order, and the end of the log where it was.
SameLog ==
    first_run # None =>
        /\ pc = "register" => spawn_lines' = first_run[1].spawn_lines
        /\ pc = "events" =>
              /\ Len(lines') <= Len(first_run[1].lines)
              /\ lines' = SubSeq(first_run[1].lines, 1, Len(lines'))
              /\ pc' = "bailout" => lines = first_run[1].lines

-----------------------------------------------------------------------------
(* The logs of the timeline specifications *)

\* seconds of the lines: a kill at the start and one 60 s before the hit,
\* the hit, and landings 0, 45, 60 and 65 s after the hit
Secs == [start |-> 0, early |-> 10, hit |-> 70, soon |-> 115, edge |-> 130, late |-> 135]

\* altitudes: the airfield, 120 m above it and 150 m above it
Alts == [field |-> 100, low |-> 220, high |-> 250]

Tick(sec) == sec * TicksPerSecond

\* a hit of 10 % on the controlled aircraft
HitDamage == [aircraft |-> 100]

LandingLines ==
    \/ \E sec \in {Secs.early, Secs.hit} :
          TakeoffEvent(Tick(sec), AircraftId, Some(Alts.field))
    \/ \E sec \in {Secs.start, Secs.early} :
          DestroyEvent(Tick(sec), AircraftId, TargetId, None)
    \/ \E a \in {AircraftId, OtherId}, alt \in {None, Some(Alts.low), Some(Alts.high)} :
          DamageEvent(Tick(Secs.hit), a, AircraftId, HitDamage.aircraft, alt)
    \/ \E sec \in {Secs.hit, Secs.soon, Secs.edge, Secs.late}, atype \in {6, 7} :
          LandingOrCrashEvent(Tick(sec), atype, AircraftId, Some(Alts.field))

NextLanding == Register \/ LandingLines \/ AfterLoop \/ to_json

SpecLanding == Init /\ [][NextLanding]_vars

\* the lines of the logs that are run twice
TwiceLines ==
    \/ TakeoffEvent(Tick(Secs.hit), AircraftId, Some(Alts.field))
    \/ \E sec \in {Secs.start, Secs.hit} :
          DestroyEvent(Tick(sec), AircraftId, TargetId, None)
    \/ \E a \in {AircraftId, OtherId} :
          DamageEvent(Tick(Secs.hit), a, AircraftId, HitDamage.aircraft, Some(Alts.low))
    \/ \E sec \in {Secs.hit, Secs.soon}, atype \in {6, 7} :
          LandingOrCrashEvent(Tick(sec), atype, AircraftId, Some(Alts.field))

NextTwice == (Register \/ TwiceLines \/ AfterLoop \/ to_json \/ Restart) /\ SameLog

SpecTwice == Init /\ [][NextTwice]_vars

-----------------------------------------------------------------------------
(* A log without a player-flagged spawn line *)

NoPlayerSpawnLog ==
    << SpawnLine(10, FALSE, AircraftId, PilotId, -1, Il2),
       SpawnLine(12, FALSE, -1, -1, AircraftId, Il2),
       SpawnLine(12, FALSE, -1, -1, PilotId, BotPilot),
       SpawnLine(12, FALSE, -1, -1, OtherId, Bf109),
       SpawnLine(12, FALSE, -1, -1, TargetId, Bf109) >>

RegisterNoPlayer == RegisterPass(NoPlayerSpawnLog)

NoPlayerLines ==
    \/ \E a \in {AircraftId, OtherId} : DamageEvent(0, a, TargetId, 800, None)
    \/ \E tgt \in {AircraftId, PilotId} : DamageEvent(0, OtherId, tgt, 800, None)
    \/ \E t \in KillTicks, a \in {-1, AircraftId, PilotId, OtherId} :
          DestroyEvent(t, a, TargetId, None)
    \/ TakeoffEvent(TicksPerSecond, AircraftId, Some(Alts.field))
    \/ SeparationEvent(TicksPerSecond, PilotId, AircraftId)
    \/ \E atype \in {6, 7} :
          LandingOrCrashEvent(TicksPerSecond, atype, AircraftId, Some(Alts.field))
    \/ ParachuteSpawnEvent(TicksPerSecond, -1, TRUE)

NextNoPlayer == RegisterNoPlayer \/ NoPlayerLines \/ AfterLoop \/ to_json

SpecNoPlayer == Init /\ [][NextNoPlayer]_vars

-----------------------------------------------------------------------------
(* Logs that register three objects, the first with a type tag of every shape *)

TagPrefixes == {<<>>, <<" ">>, StaticMarker}
TagCores ==
    { <<"i","l","2">>, <<"I","L","2">>, <<"f","l","a","k">>,
      <<"f","l","a","k","8","8","x">>, <<"x","f","l","a","k">>,
      <<"f","a","k","e","f","l","a","k">>, <<"F","a","k","e">>,
      <<"s","h","i","p">>, <<"t","r","u","c","k">> }
TagSuffixes == {<<>>, <<"_","x">>, <<"[","1",",","2","]">>}
Tags == {p \o c \o s : p \in TagPrefixes, c \in TagCores, s \in TagSuffixes}

RegisterTags ==
    \E t1 \in Tags, t2 \in {<<"f","l","a","k">>, <<"s","t","a","t","i","c","_","i","l","2">>} :
        RegisterPass(<< SpawnLine(12, FALSE, -1, -1, TargetId, t1),
                        SpawnLine(12, FALSE, -1, -1, OtherId, t2),
                        SpawnLine(12, FALSE, -1, -1, ExcludedId,
                                  <<"f","l","a","k","8","8","x">>) >>)

SpecClassify == Init /\ [][RegisterTags]_vars

-----------------------------------------------------------------------------
(* Properties.  They read the log (lines) and compare what it asks for      *)
(* with what parse() has computed.                                         *)

\* the retroactive pass has run
AfterRetro == pc \in {"bailout", "duration", "done", "failed"}

\* id a is the controlled pilot or the controlled aircraft
Controlled(a) == player_pid = <<a>> \/ player_plid = <<a>>

\* the positions of the destroy lines of target tid
DestroyLines(tid) == {i \in 1..Len(lines) : lines[i].atype = 3 /\ lines[i].tid = tid}

\* the positions up to n of the damage lines on target tid
DamageLines(tid, n) == {i \in 1..n : lines[i].atype = 2 /\ lines[i].tid = tid}

RECURSIVE LogDamage(_)
LogDamage(S) ==
    IF S = {} THEN 0
    ELSE LET i == CHOOSE x \in S : TRUE IN lines[i].dmg + LogDamage(S \ {i})

\* the controlled entity's share of the damage on tid in the first n lines is
\* at least 0.8
LogShare(tid, n) ==
    LET all == DamageLines(tid, n)
        own == {i \in all : Controlled(lines[i].aid)}
    IN  LogDamage(all) > 0 /\ 5 * LogDamage(own) >= 4 * LogDamage(all)

\* a registered target that is not Excluded
Creditable(tid) == tid \in DOMAIN objects /\ objects[tid].category # "Excluded"

\* every destroy line of tid, and there is one, carries attacker -1
OnlyIndirect(tid) ==
    DestroyLines(tid) # {} /\ \A i \in DestroyLines(tid) : lines[i].aid = -1

\* the time string of the last damage line on tid
LastHitTime(tid) ==
    LET on == DamageLines(tid, Len(lines))
    IN  mission_time_to_hhmmss(lines[CHOOSE i \in on : \A j \in on : j <= i].t)

\* C1 (as claimed): after the whole log, a registered, non-Excluded target
\* whose destroy lines carry attacker -1 is in the kill list if and only if
\* the controlled entity's share of all the damage on it in the log is >= 0.8.
C1_WholeLogShare ==
    AfterRetro =>
        \A tid \in DOMAIN objects :
            (Creditable(tid) /\ OnlyIndirect(tid)) =>
                (tid \in KillIds(kills) <=> LogShare(tid, Len(lines)))

\* C2 (as claimed): a kill credited indirectly has the time of the last hit on
\* the target as its kill time, not the time of the destroy line.
C2_LastHitTime ==
    AfterRetro =>
        \A tid \in KillIds(kills) :
            OnlyIndirect(tid) => objects[tid].time_of_kill = LastHitTime(tid)

\* C3 (as claimed): a target whose destroy lines all name a third party
\* (neither the controlled entity nor -1) is never in the kill list after the
\* run, whatever the damage share.
C3_ThirdPartyNeverCredited ==
    AfterRetro =>
        \A tid \in DOMAIN objects :
            (/\ DestroyLines(tid) # {}
             /\ \A i \in DestroyLines(tid) :
                    lines[i].aid # -1 /\ ~Controlled(lines[i].aid))
            => tid \notin KillIds(kills)

\* tid was destroyed by a line naming the controlled entity
DirectlyDestroyed(tid) ==
    \E i \in DestroyLines(tid) : Controlled(lines[i].aid)

\* the number of entries of tid in the kill list ks
Entries(ks, tid) == Cardinality({i \in 1..Len(ks) : ks[i] = tid})

\* C4: a destroy line naming the controlled entity credits a registered,
\* non-Excluded target at once with the line's own time, and the retroactive
\* pass leaves a directly credited target's object (kill time included) and
\* its single entry in the kill list as they were.
C4_DirectCreditKept ==
    [][ /\ (pc = "events" /\ Len(lines') = Len(lines) + 1) =>
              LET l == lines'[Len(lines')]
              IN  (l.atype = 3 /\ Controlled(l.aid) /\ Creditable(l.tid)) =>
                      /\ Entries(kills', l.tid) = 1
                      /\ objects'[l.tid].state = "Destroyed"
                      /\ objects'[l.tid].time_of_kill = mission_time_to_hhmmss(l.t)
        /\ (pc = "events" /\ pc' = "bailout") =>
              \A tid \in DOMAIN objects :
                  (Creditable(tid) /\ DirectlyDestroyed(tid)) =>
                      /\ objects'[tid] = objects[tid]
                      /\ Entries(kills, tid) = 1
                      /\ Entries(kills', tid) = 1
      ]_vars

\* C4's case: the pass has run over a directly credited target whose damage
\* share qualifies and whose last hit has another time than its kill.
C4_Witness ==
    /\ pc = "bailout"
    /\ \E tid \in KillIds(kills) :
          /\ DirectlyDestroyed(tid)
          /\ LogShare(tid, Len(lines))
          /\ objects[tid].time_of_kill # LastHitTime(tid)

\* C5: the kill list holds each target at most once.
C5_NoDuplicateKill ==
    \A i, j \in 1..Len(kills) : kills[i] = kills[j] => i = j

\* C5's case: a target credited directly, then destroyed again by a line with
\* attacker -1 while its share qualifies, and the retroactive pass has run.
C5_Witness ==
    /\ pc = "bailout"
    /\ \E tid \in KillIds(kills) :
          \E i, j \in DestroyLines(tid) :
              /\ i < j
              /\ Controlled(lines[i].aid)
              /\ lines[j].aid = -1
              /\ LogShare(tid, j)

\* C6: an Excluded object is never in the kill list, is never marked
\* destroyed, and the air, ground and naval counts count no Excluded object.
C6_ExcludedNeverKilled ==
    \A x \in DOMAIN objects :
        objects[x].category = "Excluded" =>
            /\ x \notin KillIds(kills)
            /\ objects[x].state = "Alive"
            /\ LET rest == SelectSeq(kills, LAMBDA k : k # x)
               IN  /\ air_kills = KillCount(rest, {"Air"})
                   /\ ground_kills = KillCount(rest, {"Ground", "Building"})
                   /\ naval_kills = KillCount(rest, {"Naval"})

\* C6's case: an Excluded object destroyed by the controlled entity and by a
\* line with attacker -1, all the damage on it the controlled entity's, and
\* the retroactive pass has run.
C6_Witness ==
    /\ pc = "bailout"
    /\ \E x \in DOMAIN objects :
          /\ objects[x].category = "Excluded"
          /\ DirectlyDestroyed(x)
          /\ \E j \in DestroyLines(x) : lines[j].aid = -1
          /\ LogShare(x, Len(lines))


-----------------------------------------------------------------------------
(* The flight outcome *)

\* the primary state a final-state label stands for
PrimaryState(fs) ==
    CASE fs = "Alive" -> "Flying"
      [] fs \in {"Landed", "Landed (Wounded)"} -> "Landed"
      [] fs \in {"Crashed", "Crashed (Wounded)"} -> "Crashed"
      [] fs \in {"Bailout", "Bailout (Wounded)", "Bailed Out", "Bailed Out (Wounded)"}
            -> "BailedOut"

\* line l is a landing or crash line of the controlled pilot
TerminalLine(l) == l.atype \in {6, 7} /\ Controlled(l.pid)

\* this step handles a line of the log
LineHandled == pc = "events" /\ Len(lines') = Len(lines) + 1

\* C7 (as claimed): the first landing or crash line of the controlled pilot
\* decides the state: with a separation timestamp and D > 2000 it is
\* BailedOut; otherwise Crashed for a crash line and Landed for a landing line.
C7_FirstTerminalDecides ==
    [][ (/\ LineHandled
         /\ TerminalLine(lines'[Len(lines')])
         /\ \A i \in 1..Len(lines) : ~TerminalLine(lines[i]))
        => LET l == lines'[Len(lines')]
           IN  PrimaryState(final_state') =
                  IF pilot_separation_time # None /\ l.t - pilot_separation_time[1] > 2000
                  THEN "BailedOut"
                  ELSE IF l.atype = 7 THEN "Crashed" ELSE "Landed"
      ]_vars

\* C8 (as claimed): a landing or crash line of the controlled pilot that is
\* not the first changes neither the state, nor the terminal timestamp, nor
\* the event list.
C8_LaterTerminalIgnored ==
    [][ (/\ LineHandled
         /\ TerminalLine(lines'[Len(lines')])
         /\ \E i \in 1..Len(lines) : TerminalLine(lines[i]))
        => UNCHANGED <<final_state, landed, crashed, landing_time, events>>
      ]_vars

\* the log has a paratrooper's parachute line
ParatrooperLine == \E i \in 1..Len(lines) : lines[i].atype = 13 /\ lines[i].paratrooper

\* the log has no landing or crash line of the controlled pilot
NoTerminalLine == \A i \in 1..Len(lines) : ~TerminalLine(lines[i])

\* C9: at the end of the log, with no landing or crash line of the controlled
\* pilot and a paratrooper line the state becomes BailedOut; a Landed or
\* Crashed state is left as it is; with neither a landing or crash line nor a
\* paratrooper line the state stays Flying; nothing after the detection
\* changes the state.
C9_BailoutFallback ==
    [][ /\ (pc = "bailout" /\ pc' = "duration") =>
              /\ (NoTerminalLine /\ ParatrooperLine) =>
                    PrimaryState(final_state') = "BailedOut"
              /\ PrimaryState(final_state) \in {"Landed", "Crashed"} =>
                    final_state' = final_state
              /\ (NoTerminalLine /\ ~ParatrooperLine) =>
                    PrimaryState(final_state') = "Flying"
        /\ pc = "duration" => final_state' = final_state
      ]_vars

\* C9's case: the detection has run on a log with a takeoff, a paratrooper
\* line and no landing or crash line.
C9_Witness ==
    /\ pc = "duration"
    /\ NoTerminalLine
    /\ ParatrooperLine
    /\ takeoff_time # None
    /\ final_state = "Bailed Out"

\* the damage, in thousandths, of the hits on the pilot id in the log so far
PilotLogDamage ==
    LogDamage({i \in 1..Len(lines) : lines[i].atype = 2 /\ player_pid = <<lines[i].tid>>})

-----------------------------------------------------------------------------
(* The landing-damage reclassifier and the timeline *)

\* the timeline of the exported dict
Timeline == data[1].events

\* the seconds of a time string "HH:MM:SS"
SecondsOf(ts) == ts[1] * 3600 + ts[2] * 60 + ts[3]

DamageEntry(e) == e.type \in {"Damage Taken", "Landing Damage"}
Relabelled(e) == e.type = "Landing Damage"

\* the second of the terminal timestamp
TerminalSecond == landing_time[1] \div TicksPerSecond

\* the seconds of the credited air kills
AirKillSeconds ==
    {SecondsOf(objects[kills[i]].time_of_kill) :
        i \in {j \in 1..Len(kills) : objects[kills[j]].category = "Air"}}

\* more than 60 s after the last credited air kill, or no air kill
QuietSince(sec) == \A k \in AirKillSeconds : sec - k > 60

\* the altitudes of the log's first takeoff line and first landing or crash
\* line of the controlled pilot, None when there is no such line or no altitude
FirstAlt(at) ==
    IF at = {} THEN None ELSE lines[CHOOSE i \in at : \A j \in at : i <= j].alt
TakeoffAlt ==
    FirstAlt({i \in 1..Len(lines) : lines[i].atype = 5 /\ Controlled(lines[i].pid)})
TerminalAlt == FirstAlt({i \in 1..Len(lines) : TerminalLine(lines[i])})

\* alt is within 150 m of the airfield elevation (the average of the two
\* altitudes, or the one that is known); true when none is known
NearAirfield(alt) ==
    LET twice == IF TakeoffAlt # None /\ TerminalAlt # None
                 THEN Some(TakeoffAlt[1] + TerminalAlt[1])
                 ELSE IF TakeoffAlt # None THEN Some(2 * TakeoffAlt[1])
                 ELSE IF TerminalAlt # None THEN Some(2 * TerminalAlt[1])
                 ELSE None
    IN  (twice # None /\ alt # None) =>
            (2 * alt[1] - twice[1] < 300 /\ twice[1] - 2 * alt[1] < 300)

C12_HardLandingFlag ==
    pc = "exported" =>
        IF \E i \in 1..Len(Timeline) : Relabelled(Timeline[i])
        THEN \A i \in 1..Len(Timeline) :
                 Timeline[i].type = "Landing" => Timeline[i].hard_landing
        ELSE \A i \in 1..Len(Timeline) : ~Timeline[i].hard_landing

\* the rearrangements of a list of n elements
Perms(n) == {p \in [1..n -> 1..n] : \A i, j \in 1..n : p[i] = p[j] => i = j}

\* the time and the type of each event of a list
TimeAndType(es) == [i \in 1..Len(es) |-> <<es[i].time, es[i].type>>]

\* the rearrangements of the event list of parse() that the same lines in
\* another order of the log give: events of one tick change places
SameTickOrders ==
    {p \in Perms(Len(events)) :
        \A i, j \in 1..Len(events) :
            i < j => events[p[i]].time_raw[1] <= events[p[j]].time_raw[1]}

\* C13 (as claimed): the timeline is ascending in time, and the order of its
\* events, by time and type, does not depend on the order in which events of
\* one tick were appended.
C13_TieOrderFixed ==
    pc = "exported" =>
        /\ \A i, j \in 1..Len(Timeline) :
              i < j => SecondsOf(Timeline[i].time) <= SecondsOf(Timeline[j].time)
        /\ \A p \in SameTickOrders :
              TimeAndType(timeline_of([i \in 1..Len(events) |-> events[p[i]]]))
                  = TimeAndType(Timeline)

\* C14 (as claimed): a log without a landing or crash line of the controlled
\* pilot, but with timeline events, is parsed to the end, its event list has
\* a Mission End event at the latest tick of the other events, and with a
\* takeoff the flight duration is computed.
C14_MissionEndSynthesized ==
    (pc \in {"done", "failed"} /\ NoTerminalLine /\ events # <<>>) =>
        /\ pc = "done"
        /\ \E i \in 1..Len(events) :
              /\ events[i].type = "Mission End"
              /\ events[i].time_raw =
                    Some(MaxTimeRaw(SelectSeq(events, LAMBDA e : e.type # "Mission End")))
        /\ takeoff_time # None => flight_duration # None

-----------------------------------------------------------------------------
(* Classification *)

\* the tag as it is looked up: lower-cased and trimmed, a static tag without
\* its bracketed coordinates
LookupTag(tag) ==
    LET s == Strip(LowerStr(tag))
    IN  IF StartsWith(s, StaticMarker) /\ \E i \in 1..Len(s) : s[i] = "["
        THEN SubSeq(s, 1, (CHOOSE i \in 1..Len(s) :
                              s[i] = "[" /\ \A j \in 1..(i - 1) : s[j] # "[") - 1)
        ELSE s

\* k occurs in s
Occurs(k, s) == \E i \in 1..Len(s), j \in 1..Len(s) : SubSeq(s, i, j) = k

\* the categories that have s among their keywords
CategoriesOf(s) ==
    {c \in 1..Len(CategoryConfig) :
        \E n \in 1..Len(CategoryConfig[c].keywords) : CategoryConfig[c].keywords[n] = s}

\* C16: an object's category is Excluded if an exclusion keyword occurs in
\* its tag, also when the tag is a category keyword; otherwise it is the
\* first category that has the tag among its keywords; otherwise Unknown.  A
\* tag that only contains a keyword of a category is not of that category.
C16_ClassifyExact ==
    \A i \in 1..Len(spawn_lines) :
        LET s == LookupTag(spawn_lines[i].type)
            cat == objects[spawn_lines[i].gid].category
        IN  /\ (\E x \in 1..Len(ExcludeConfig) : Occurs(ExcludeConfig[x], s))
                  => cat = "Excluded"
            /\ (~\E x \in 1..Len(ExcludeConfig) : Occurs(ExcludeConfig[x], s)) =>
                  /\ CategoriesOf(s) # {} =>
                        \E c \in CategoriesOf(s) :
                            /\ cat = CategoryConfig[c].cat
                            /\ \A d \in CategoriesOf(s) : c <= d
                  /\ CategoriesOf(s) = {} => cat = "Unknown"
            /\ \A c \in 1..Len(CategoryConfig) :
                  cat = CategoryConfig[c].cat => c \in CategoriesOf(s)

\* C16's case: registered objects whose tags are a category keyword that
\* contains an exclusion keyword, a keyword of two categories, and a tag
\* that contains a keyword without being one.
C16_Witness ==
    /\ pc = "events"
    /\ \E i \in 1..Len(spawn_lines) :
          /\ CategoriesOf(LookupTag(spawn_lines[i].type)) # {}
          /\ objects[spawn_lines[i].gid].category = "Excluded"
    /\ \E i \in 1..Len(spawn_lines) :
          /\ Cardinality(CategoriesOf(LookupTag(spawn_lines[i].type))) = 2
          /\ objects[spawn_lines[i].gid].category = "Ground"
    /\ \E i \in 1..Len(spawn_lines) :
          /\ spawn_lines[i].type = <<"f","l","a","k","8","8","x">>
          /\ objects[spawn_lines[i].gid].category = "Unknown"

-----------------------------------------------------------------------------
(* A log without a player *)

\* no spawn line of the log carries the player flag
NoPlayerSpawn ==
    \A i \in 1..Len(spawn_lines) : ~(spawn_lines[i].atype = 10 /\ spawn_lines[i].ispl)

\* the ids of the unflagged AType:10 lines of the log
UnflaggedIds ==
    UNION {{spawn_lines[i].plid, spawn_lines[i].pid} :
              i \in {j \in 1..Len(spawn_lines) : spawn_lines[j].atype = 10}}

\* C17: a log without a player-flagged spawn line is parsed and exported
\* without a failure, no kill is credited, and no damage is booked to the
\* player: no total, no wound, no damage event, no damage in the summary.
C17_NoPlayerNoCredit ==
    (pc # "register" /\ NoPlayerSpawn) =>
        /\ pc # "failed"
        /\ kills = <<>>
        /\ total_aircraft_damage = 0 /\ total_pilot_damage = 0
        /\ ~wounded
        /\ \A i \in 1..Len(events) : events[i].type # "Damage Taken"
        /\ pc = "exported" =>
              /\ data[1].summary.air_kills = 0
              /\ data[1].summary.aircraft_damage = 0
              /\ data[1].summary.pilot_damage = 0
              /\ \A i \in 1..Len(Timeline) :
                    Timeline[i].type \notin {"Kill", "Damage Taken", "Landing Damage"}

\* C17's case: the export of a log without a player flag in which an
\* aircraft of an unflagged AType:10 line did all the damage on a target
\* that a line with attacker -1 destroys, and was hit itself.
C17_Witness ==
    /\ pc = "exported"
    /\ NoPlayerSpawn
    /\ \E i, j, k \in 1..Len(lines) :
          /\ lines[i].atype = 2 /\ lines[i].aid \in UnflaggedIds
          /\ lines[j].atype = 3 /\ lines[j].aid = -1 /\ lines[j].tid = lines[i].tid
          /\ i < j
          /\ lines[k].atype = 2 /\ lines[k].tid \in UnflaggedIds /\ lines[k].dmg > 0

-----------------------------------------------------------------------------
(* Duration, separation and takeoff *)

\* C18 (as claimed): with a takeoff and a terminal timestamp the flight
\* duration is the HH:MM:SS of (terminal - takeoff) / 50 seconds and none of
\* its fields is negative, whatever the order of the takeoff and the landing
\* or crash in the log; without a takeoff the summary reports no duration.
C18_DurationNonNegative ==
    pc = "done" =>
        /\ (takeoff_time # None /\ landing_time # None) =>
              LET secs == (landing_time[1] - takeoff_time[1]) \div TicksPerSecond
                  hms == <<secs \div 3600, (secs % 3600) \div 60, secs % 60>>
              IN  /\ flight_duration = Some(hms)
                  /\ \A i \in 1..3 : hms[i] >= 0
        /\ takeoff_time = None => summary_flight_duration = NotAvailable

\* l is a separation line with the controlled pilot's and aircraft's ids
MatchingSeparation(l) ==
    l.atype = 18 /\ player_pid = <<l.botid>> /\ player_plid = <<l.parentid>>

\* C19 (as claimed): the first matching separation line records its tick as
\* the separation timestamp; a later matching line leaves it unchanged.
C19_FirstSeparationKept ==
    [][ (LineHandled /\ MatchingSeparation(lines'[Len(lines')])) =>
            pilot_separation_time' =
                IF \E i \in 1..Len(lines) : MatchingSeparation(lines[i])
                THEN pilot_separation_time
                ELSE Some(lines'[Len(lines')].t)
      ]_vars

\* l is a takeoff line of the controlled pilot
TakeoffLine(l) == l.atype = 5 /\ Controlled(l.pid)

\* the number of Takeoff events of an event list
Takeoffs(es) == Len(SelectSeq(es, LAMBDA e : e.type = "Takeoff"))

\* C20 (as claimed): the first takeoff line of the controlled pilot records
\* its tick, tick 0 included, as the takeoff timestamp; a later takeoff line
\* changes neither the timestamp nor the event list.
C20_FirstTakeoffKept ==
    [][ (LineHandled /\ TakeoffLine(lines'[Len(lines')])) =>
            IF \E i \in 1..Len(lines) : TakeoffLine(lines[i])
            THEN UNCHANGED <<takeoff_time, events>>
            ELSE /\ takeoff_time' = Some(lines'[Len(lines')].t)
                 /\ Takeoffs(events') = 1
      ]_vars

-----------------------------------------------------------------------------
(* Criterion 3 of the landing damage: logs with an air target and a ground  *)
(* target                                                                  *)

Flak == <<"f","l","a","k">>

\* the controlled aircraft and pilot, an enemy aircraft and a flak gun
CombatSpawnLog ==
    << SpawnLine(10, TRUE, AircraftId, PilotId, -1, Il2),
       SpawnLine(12, FALSE, -1, -1, AircraftId, Il2),
       SpawnLine(12, FALSE, -1, -1, PilotId, BotPilot),
       SpawnLine(12, FALSE, -1, -1, OtherId, Bf109),
       SpawnLine(12, FALSE, -1, -1, TargetId, Flak) >>

RegisterCombat == RegisterPass(CombatSpawnLog)

\* kills of either target 70 s and 60 s before the hit, a hit on the enemy
\* aircraft and its destruction by the flak gun, the self-sourced hit, and
\* the landing or crash 45 s after it
CombatLines ==
    \/ \E sec \in {Secs.start, Secs.early}, tgt \in {OtherId, TargetId} :
          DestroyEvent(Tick(sec), AircraftId, tgt, None)
    \/ DamageEvent(Tick(Secs.start), AircraftId, OtherId, 800, None)
    \/ \E sec \in {Secs.start, Secs.early} :
          DestroyEvent(Tick(sec), TargetId, OtherId, None)
    \/ DamageEvent(Tick(Secs.hit), AircraftId, AircraftId, HitDamage.aircraft, None)
    \/ \E atype \in {6, 7} :
          LandingOrCrashEvent(Tick(Secs.soon), atype, AircraftId, None)

NextCombat == RegisterCombat \/ CombatLines \/ AfterLoop \/ to_json

SpecCombat == Init /\ [][NextCombat]_vars

\* C21 (as claimed): a damage entry is relabelled only if more than 60 s lie
\* between the latest credited air kill and the entry, or no air kill is
\* credited; and an entry that meets criteria 1, 2 and 4 is relabelled exactly
\* if that holds, whatever ground, naval or building kills are credited and
\* in whatever order the kills were appended.
C21_QuietSinceAirKill ==
    pc = "exported" =>
        \A i \in 1..Len(Timeline) :
            LET e == Timeline[i]
                gap == TerminalSecond - SecondsOf(e.time)
                own == e.target = player_aircraft \/ e.original_target = player_aircraft
                inWindow == landing_time # None /\ 0 < gap /\ gap < 60
            IN  DamageEntry(e) =>
                    /\ Relabelled(e) => QuietSince(SecondsOf(e.time))
                    /\ (own /\ inWindow /\ NearAirfield(e.altitude)) =>
                           (Relabelled(e) <=> QuietSince(SecondsOf(e.time)))

-----------------------------------------------------------------------------
(* Criterion 4 of the landing damage: logs with two airfields               *)

\* altitudes: the airfield of the takeoff and the lower airfield of the
\* landing (their average is 250 m), and hits 160 m below, 140 m above and
\* 150 m above the average
FieldAlts == [takeoff |-> 400, landing |-> 100, below |-> 90, inside |-> 390,
              above |-> 400]

AirfieldLines ==
    \/ \E alt \in {None, Some(FieldAlts.takeoff)} :
          TakeoffEvent(Tick(Secs.early), AircraftId, alt)
    \/ \E alt \in {None, Some(FieldAlts.below), Some(FieldAlts.inside),
                   Some(FieldAlts.above)} :
          DamageEvent(Tick(Secs.hit), AircraftId, AircraftId, HitDamage.aircraft, alt)
    \/ \E atype \in {6, 7}, alt \in {None, Some(FieldAlts.landing)} :
          LandingOrCrashEvent(Tick(Secs.soon), atype, AircraftId, alt)

NextAirfield == Register \/ AirfieldLines \/ AfterLoop \/ to_json

SpecAirfield == Init /\ [][NextAirfield]_vars

\* the altitude of the last event of the timeline at the positions at that
\* carries one, None when there is none
LastAltitude(at) ==
    LET with == {i \in at : Timeline[i].altitude # None}
    IN  IF with = {} THEN None
        ELSE Timeline[CHOOSE i \in with : \A j \in with : j <= i].altitude

\* the airfield elevation of the exported timeline, doubled: the sum of the
\* altitudes of its Takeoff and of its Landing or Crash event when both are
\* known, twice the one that is known, None when neither is
Elevation2 ==
    LET to == LastAltitude({i \in 1..Len(Timeline) : Timeline[i].type = "Takeoff"})
        te == LastAltitude({i \in 1..Len(Timeline) :
                               Timeline[i].type \in {"Landing", "Crash"}})
    IN  IF to # None /\ te # None THEN Some(to[1] + te[1])
        ELSE IF to # None THEN Some(2 * to[1])
        ELSE IF te # None THEN Some(2 * te[1])
        ELSE None

\* C22 (as claimed): when an airfield elevation is known, a relabelled entry
\* has an altitude that lies less than 150 m above and less than 150 m below
\* the elevation.
C22_WithinBand ==
    pc = "exported" =>
        \A i \in 1..Len(Timeline) :
            (Relabelled(Timeline[i]) /\ Elevation2 # None) =>
                /\ Timeline[i].altitude # None
                /\ 2 * Timeline[i].altitude[1] - Elevation2[1] < 2 * 150
                /\ Elevation2[1] - 2 * Timeline[i].altitude[1] < 2 * 150

\* criterion 4 as the code applies it: skipped when no elevation is known or
\* the entry has no altitude, otherwise less than 150 m above the elevation
BelowBandTop(alt) ==
    (Elevation2 # None /\ alt # None) => 2 * alt[1] - Elevation2[1] < 2 * 150

\* C22 (amended): when an airfield elevation is known and the entry carries
\* an altitude, the entry is relabelled only if its altitude is less than
\* 150 m above the elevation, however far below it is; the criterion is
\* skipped when no elevation is known or the entry carries no altitude.  A
\* self-sourced entry in the 60 s window of a log without kills is relabelled
\* exactly if this holds.
C22_BelowBandTop ==
    pc = "exported" =>
        \A i \in 1..Len(Timeline) :
            LET e == Timeline[i]
                gap == TerminalSecond - SecondsOf(e.time)
                own == e.target = player_aircraft \/ e.original_target = player_aircraft
                inWindow == landing_time # None /\ 0 < gap /\ gap < 60
            IN  DamageEntry(e) =>
                    /\ Relabelled(e) => BelowBandTop(e.altitude)
                    /\ (own /\ inWindow /\ kills = <<>> /\ BelowBandTop(e.altitude))
                           => Relabelled(e)

\* C22's case: with both altitudes known, an entry 160 m below the airfield
\* elevation has been relabelled.
C22_Witness ==
    /\ pc = "exported"
    /\ \E i \in 1..Len(Timeline) :
          /\ Relabelled(Timeline[i])
          /\ TakeoffAlt # None /\ TerminalAlt # None
          /\ Elevation2 = Some(TakeoffAlt[1] + TerminalAlt[1])
          /\ Timeline[i].altitude # None
          /\ Elevation2[1] - 2 * Timeline[i].altitude[1] = 2 * 160

-----------------------------------------------------------------------------
(* The label of a hard landing: logs with a wounded pilot                   *)

\* a hit of 2 % on the controlled pilot
PilotHit == [wounding |-> 20]

HardLandingLines ==
    \/ \E sec \in {Secs.early, Secs.hit} :
          DamageEvent(Tick(sec), OtherId, PilotId, PilotHit.wounding, None)
    \/ \E a \in {AircraftId, OtherId} :
          DamageEvent(Tick(Secs.hit), a, AircraftId, HitDamage.aircraft, None)
    \/ \E sec \in {Secs.soon, Secs.late}, atype \in {6, 7} :
          LandingOrCrashEvent(Tick(sec), atype, AircraftId, None)

NextHardLanding == Register \/ HardLandingLines \/ AfterLoop \/ to_json

SpecHardLanding == Init /\ [][NextHardLanding]_vars

\* C23 (as claimed): when an entry of the exported timeline is relabelled
\* Landing Damage and the primary state is Landed, wounded or not, the
\* exported label is the upgraded one and no longer the label parse() gave;
\* when no entry is relabelled the exported label is the label parse() gave.
C23_HardLandingLabel ==
    pc = "exported" =>
        IF \E i \in 1..Len(Timeline) : Relabelled(Timeline[i])
        THEN PrimaryState(final_state) = "Landed" =>
                 data[1].summary.final_state
                     \in {"Landed (Hard Landing)", "Landed (Hard Landing) (Wounded)",
                          "Landed (Wounded) (Hard Landing)"}
        ELSE data[1].summary.final_state = final_state

-----------------------------------------------------------------------------
(* Static objects: logs that register a type, the type with the static      *)
(* marker, and the type with the marker and coordinates                    *)

Markers == {StaticMarker, <<"S","t","a","t","i","c","_">>,
            <<"S","T","A","T","I","C","_">>}
CoordSuffixes == {<<"[","1",",","2","]">>, <<"[","0","]">>, <<"[","]">>}
StaticCores ==
    TagCores \cup {Bf109, <<"t","a","n","k">>, <<"i","l","2","m">>}

RegisterStatic ==
    \E x \in StaticCores, m \in Markers, c \in CoordSuffixes :
        RegisterPass(<< SpawnLine(12, FALSE, -1, -1, TargetId, x),
                        SpawnLine(12, FALSE, -1, -1, OtherId, m \o x),
                        SpawnLine(12, FALSE, -1, -1, ExcludedId, m \o x \o c) >>)

SpecStatic == Init /\ [][RegisterStatic]_vars

\* the tag begins with the static-object marker
HasMarker(tag) == StartsWith(LowerStr(tag), StaticMarker)

\* tag b is tag a with bracketed coordinates behind it
WithCoords(a, b) == \E c \in CoordSuffixes : b = a \o c

\* tag b is tag a with the marker in front of it
WithMarker(a, b) == \E m \in Markers : b = m \o a

\* the object registered by spawn line i
ObjectOf(i) == objects[spawn_lines[i].gid]

-----------------------------------------------------------------------------
(* The lifecycle of a GameObject *)

\* C25 (as claimed): once an object's state is Destroyed, no step (a later
\* destroy line for it, direct or with attacker -1, or the retroactive pass)
\* changes its state, its kill time or its kill altitude.
C25_DestroyedOnce ==
    [][ \A tid \in DOMAIN objects :
            objects[tid].state = "Destroyed" =>
                /\ tid \in DOMAIN objects'
                /\ objects'[tid].state = "Destroyed"
                /\ objects'[tid].time_of_kill = objects[tid].time_of_kill
                /\ objects'[tid].altitude = objects[tid].altitude
      ]_vars

-----------------------------------------------------------------------------
(* Logs with a second player-flagged spawn line                             *)

\* the spawn lines of SpawnLog and a later AType:10 line, flagged or not,
\* of pilot 6 in aircraft 3
RespawnLogs ==
    {SpawnLog \o << SpawnLine(10, ispl, OtherId, UnregisteredId, -1, Bf109) >> :
        ispl \in BOOLEAN}

RegisterRespawn == \E spawns \in RespawnLogs : RegisterPass(spawns)

RespawnLines ==
    \/ \E t \in KillTicks, a \in {AircraftId, OtherId} :
          DestroyEvent(t, a, TargetId, None)
    \/ \E t \in KillTicks, pid \in {AircraftId, OtherId} :
          TakeoffEvent(t, pid, None)
    \/ \E t \in KillTicks, tgt \in {PilotId, UnregisteredId} :
          DamageEvent(t, TargetId, tgt, WoundedThreshold + 1, None)

NextRespawn == RegisterRespawn \/ RespawnLines \/ AfterLoop

SpecRespawn == Init /\ [][NextRespawn]_vars

\* the positions of the player-flagged spawn lines
FlaggedSpawns ==
    {i \in 1..Len(spawn_lines) : spawn_lines[i].atype = 10 /\ spawn_lines[i].ispl}

\* the first player-flagged spawn line
FirstFlagged ==
    spawn_lines[CHOOSE i \in FlaggedSpawns : \A j \in FlaggedSpawns : i <= j]

\* C26 (as claimed): after the registration the pilot id, the aircraft id
\* and the aircraft type name are those of the first player-flagged spawn
\* line, whatever flagged lines follow it; a target destroyed by the first
\* line's aircraft is credited and a hit of more than 0.01 on the first
\* line's pilot wounds.
C26_FirstSpawnKept ==
    (pc # "register" /\ FlaggedSpawns # {}) =>
        /\ player_plid = Some(FirstFlagged.plid)
        /\ player_pid = Some(FirstFlagged.pid)
        /\ player_aircraft = Some(FirstFlagged.type)
        /\ \A i \in 1..Len(lines) :
              (lines[i].atype = 3 /\ lines[i].aid = FirstFlagged.plid
                  /\ Creditable(lines[i].tid)) => lines[i].tid \in KillIds(kills)
        /\ \A i \in 1..Len(lines) :
              (lines[i].atype = 2 /\ lines[i].tid = FirstFlagged.pid
                  /\ lines[i].dmg > WoundedThreshold) => wounded

-----------------------------------------------------------------------------
(* Damage aggregation: logs with bursts of hits                             *)

\* a hit of 0.5 % and a hit of no damage
BurstDamage == [hit |-> 5, none |-> 0]

\* hits on the controlled aircraft and pilot at 0 s, 10 s and 70 s by the
\* controlled aircraft's type and by another type, a hit of no damage, a hit
\* on another target, and the landing or crash at 115 s
BurstLines ==
    \/ \E sec \in {Secs.start, Secs.early, Secs.hit}, a \in {AircraftId, OtherId},
          tgt \in {AircraftId, PilotId} :
          DamageEvent(Tick(sec), a, tgt, BurstDamage.hit, None)
    \/ DamageEvent(Tick(Secs.early), OtherId, AircraftId, BurstDamage.none, None)
    \/ DamageEvent(Tick(Secs.early), AircraftId, TargetId, BurstDamage.hit, None)
    \/ \E atype \in {6, 7} :
          LandingOrCrashEvent(Tick(Secs.soon), atype, AircraftId, None)

NextBurst == Register \/ BurstLines \/ AfterLoop \/ to_json

SpecBurst == Init /\ [][NextBurst]_vars

\* the in-game minute of tick t: hours and minutes
MinuteOf(t) == <<t \div (60 * 60 * 50), (t \div (60 * 50)) % 60>>

\* line l is a hit of positive damage on the controlled aircraft or pilot
ControlledHit(l) == l.atype = 2 /\ l.dmg > 0 /\ Controlled(l.tid)

\* the minutes of the log in which the controlled aircraft or pilot was hit
HitMinutes == {MinuteOf(lines[i].t) : i \in {j \in 1..Len(lines) : ControlledHit(lines[j])}}

\* the positions of the damage entries of the timeline in minute m
EntriesOf(m) ==
    {i \in 1..Len(Timeline) :
        DamageEntry(Timeline[i]) /\ <<Timeline[i].time[1], Timeline[i].time[2]>> = m}

-----------------------------------------------------------------------------
(* The wounded marker of the final state *)

\* the labels that carry the wounded marker
WoundedLabels ==
    {"Landed (Wounded)", "Crashed (Wounded)", "Bailout (Wounded)", "Bailed Out (Wounded)"}

\* C28 (as claimed): when parse() returns with a Landed, Crashed or BailedOut
\* state, the final state carries the wounded marker exactly if the wounded
\* flag is true, also when the pilot was wounded after the landing or crash
\* line.
C28_WoundedMarker ==
    (pc = "done" /\ PrimaryState(final_state) # "Flying") =>
        (final_state \in WoundedLabels <=> wounded)

-----------------------------------------------------------------------------
(* Logs whose player-flagged spawn line lacks an id field                   *)

\* the player's AType:10 line without its PID field or without its PLID
\* field (the id decodes to -1), and the AType:12 lines of the objects
SentinelSpawnLogs ==
    {<< SpawnLine(10, TRUE, ids[1], ids[2], -1, Il2),
        SpawnLine(12, FALSE, -1, -1, AircraftId, Il2),
        SpawnLine(12, FALSE, -1, -1, PilotId, BotPilot),
        SpawnLine(12, FALSE, -1, -1, OtherId, Bf109),
        SpawnLine(12, FALSE, -1, -1, TargetId, Bf109) >> :
        ids \in {<<AircraftId, -1>>, <<-1, PilotId>>}}

RegisterSentinel == \E spawns \in SentinelSpawnLogs : RegisterPass(spawns)

\* destroy lines and hits with attacker -1 and with another aircraft, and
\* takeoff, landing and crash lines without a PID field
SentinelLines ==
    \/ \E t \in KillTicks, a \in {-1, OtherId} : DestroyEvent(t, a, TargetId, None)
    \/ \E t \in KillTicks, a \in {-1, OtherId} : DamageEvent(t, a, TargetId, 800, None)
    \/ \E t \in KillTicks : TakeoffEvent(t, -1, None)
    \/ \E t \in KillTicks, atype \in {6, 7} : LandingOrCrashEvent(t, atype, -1, None)

NextSentinel == RegisterSentinel \/ SentinelLines \/ AfterLoop

SpecSentinel == Init /\ [][NextSentinel]_vars

\* id a is an id of the controlled entity and not the sentinel
ControlledId(a) == a # -1 /\ Controlled(a)

\* in the first n lines the hits of the controlled entity's ids are at least
\* 0.8 of the damage on tid
IdShare(tid, n) ==
    LET all == DamageLines(tid, n)
        own == {i \in all : ControlledId(lines[i].aid)}
    IN  LogDamage(all) > 0 /\ 5 * LogDamage(own) >= 4 * LogDamage(all)

\* C29 (as claimed): the sentinel -1 is never taken for the controlled
\* entity: a credited target was destroyed by a line naming an id of the
\* controlled entity other than -1, or that id's share of the damage on it
\* reached 0.8; and a takeoff or a landing is recorded only if a line names
\* such an id.
C29_SentinelNotControlled ==
    /\ \A tid \in KillIds(kills) :
          \/ \E i \in DestroyLines(tid) : ControlledId(lines[i].aid)
          \/ \E n \in 1..Len(lines) : IdShare(tid, n)
    /\ takeoff_time # None =>
          \E i \in 1..Len(lines) : lines[i].atype = 5 /\ ControlledId(lines[i].pid)
    /\ landing_time # None =>
          \E i \in 1..Len(lines) : lines[i].atype \in {6, 7} /\ ControlledId(lines[i].pid)

-----------------------------------------------------------------------------
(* Logs with the events of other pilots and aircraft                        *)

\* a hit of 1.1 % on a pilot, a hit of 80 % on a target
ForeignDamage == [pilot |-> 11, target |-> 800]

\* the controlled pilot's takeoff, separation, landing or crash, wound and
\* parachute, and the same events of the pilot 6 of aircraft 3
ForeignLines ==
    \/ \E pid \in {AircraftId, OtherId} : TakeoffEvent(TicksPerSecond, pid, None)
    \/ \E who \in {<<PilotId, AircraftId>>, <<UnregisteredId, OtherId>>} :
          SeparationEvent(TicksPerSecond, who[1], who[2])
    \/ \E atype \in {6, 7}, pid \in {AircraftId, OtherId} :
          LandingOrCrashEvent(TicksPerSecond, atype, pid, None)
    \/ DamageEvent(TicksPerSecond, OtherId, PilotId, ForeignDamage.pilot, None)
    \/ \E tgt \in {TargetId, UnregisteredId} :
          DamageEvent(TicksPerSecond, AircraftId, tgt, ForeignDamage.target, None)
    \/ \E pid \in {PilotId, UnregisteredId} :
          ParachuteSpawnEvent(TicksPerSecond, pid, TRUE)

NextForeign == Register \/ ForeignLines \/ AfterLoop

SpecForeign == Init /\ [][NextForeign]_vars

\* line l is a takeoff, separation, landing, crash, damage or parachute line
\* of an entity other than the controlled pilot and aircraft
Foreign(l) ==
    \/ l.atype \in {5, 6, 7, 13} /\ ~Controlled(l.pid)
    \/ l.atype = 18 /\ ~Controlled(l.botid) /\ ~Controlled(l.parentid)
    \/ l.atype = 2 /\ ~Controlled(l.tid)

\* the log has a paratrooper's parachute line of the controlled pilot
OwnParatrooperLine ==
    \E i \in 1..Len(lines) :
        lines[i].atype = 13 /\ lines[i].paratrooper /\ Controlled(lines[i].pid)

\* C30 (as claimed): a line of another entity changes none of the state, the
\* wounded flag, the takeoff, separation and terminal timestamps and the
\* final state; and the end-of-log detection leaves the final state as it is
\* unless a parachute line of the controlled pilot is in the log.
C30_ForeignEventsIgnored ==
    [][ /\ (LineHandled /\ Foreign(lines'[Len(lines')])) =>
              UNCHANGED <<final_state, landed, crashed, wounded, takeoff_time,
                          pilot_separation_time, landing_time>>
        /\ (pc = "bailout" /\ pc' = "duration" /\ ~OwnParatrooperLine) =>
              final_state' = final_state
      ]_vars

\* C30 (amended): a takeoff, separation, landing, crash or damage line of
\* another entity, and the handling of a parachute line, change none of the
\* state, the wounded flag, the three timestamps and the final state; the
\* end-of-log detection leaves the final state as it is when the log has no
\* paratrooper line, and with a paratrooper line of any pilot and no landing
\* or crash recorded it makes the state BailedOut.
C30_ForeignLinesIgnored ==
    [][ /\ (LineHandled /\ Foreign(lines'[Len(lines')])) =>
              UNCHANGED <<final_state, landed, crashed, wounded, takeoff_time,
                          pilot_separation_time, landing_time>>
        /\ (pc = "bailout" /\ pc' = "duration") =>
              /\ ~ParatrooperLine => final_state' = final_state
              /\ (ParatrooperLine /\ ~landed /\ ~crashed) =>
                    PrimaryState(final_state') = "BailedOut"
      ]_vars

\* C30's case: parse() has returned from a log of another aircraft's
\* takeoff, its pilot's separation and its landing, and the controlled
\* flight has no takeoff, no separation, no terminal timestamp and is Flying.
C30_Witness ==
    /\ pc = "done"
    /\ \A i \in 1..Len(lines) : Foreign(lines[i])
    /\ {lines[i].atype : i \in 1..Len(lines)} = {5, 18, 6}
    /\ final_state = "Alive"
    /\ takeoff_time = None /\ pilot_separation_time = None /\ landing_time = None

====
